---------------------------- MODULE Spec2Model ----------------------------
(***************************************************************************)
(* Model of omnicloud-resilience-pulumi: the entrypoint (__main__.py), the *)
(* stack configuration loader (config.py), the three component resources   *)
(* (components/aws.py, azure.py, gcp.py) and the pure helpers              *)
(* (components/_helpers.py).                                               *)
(*                                                                         *)
(* Python strings are sequences of one-character strings, so that          *)
(* replace/split/strip/startswith/endswith are computed character by       *)
(* character as Python computes them.                                      *)
(***************************************************************************)
EXTENDS Integers, Sequences, FiniteSets, TLC

\* ------------------------------------------------------------------------
\* Bounds of the model
\* ------------------------------------------------------------------------

\* at most this many of the nine configuration keys are absent in one run
MaxMissing == 1

\* longest host / path drawn over HostChars for the host-extraction inputs
MaxHostLen == 2

\* longest project_name drawn for the storage account name
MaxProjectLen == 3

\* longest prefix given to sanitize_storage_account_name on its own
MaxPrefixLen == 3

\* largest max_len given to sanitize_storage_account_name on its own
MaxMaxLen == 5

\* longest domain and longest label given to fqdn on its own
MaxDomainLen == 3
MaxLabelLen == 1

\* ------------------------------------------------------------------------
\* Python str primitives
\* ------------------------------------------------------------------------

\* s[:n] for n >= 0, and for n < 0 (Python counts a negative stop from the end)
SliceTo(s, n) ==
    LET stop == IF n >= 0 THEN (IF n < Len(s) THEN n ELSE Len(s))
                ELSE (IF Len(s) + n > 0 THEN Len(s) + n ELSE 0)
    IN  SubSeq(s, 1, stop)

\* s[n:] for 0 <= n
SliceFrom(s, n) == SubSeq(s, n + 1, Len(s))

\* s.startswith(p)
StartsWith(s, p) == Len(p) <= Len(s) /\ SubSeq(s, 1, Len(p)) = p

\* s.endswith(p)
EndsWith(s, p) ==
    Len(p) <= Len(s) /\ SubSeq(s, Len(s) - Len(p) + 1, Len(s)) = p

RECURSIVE Replace(_, _, _)
\* s.replace(old, new) for non-empty old: leftmost, non-overlapping, all
\* occurrences
Replace(s, old, new) ==
    IF Len(s) < Len(old) THEN s
    ELSE IF StartsWith(s, old)
         THEN new \o Replace(SliceFrom(s, Len(old)), old, new)
         ELSE <<Head(s)>> \o Replace(Tail(s), old, new)

RECURSIVE SplitFirst(_, _)
\* s.split(sep)[0] for a one-character sep: everything before the first sep
SplitFirst(s, sep) ==
    IF s = <<>> \/ Head(s) = sep THEN <<>>
    ELSE <<Head(s)>> \o SplitFirst(Tail(s), sep)

Whitespace == {" "}

RECURSIVE LStrip(_)
LStrip(s) ==
    IF s # <<>> /\ Head(s) \in Whitespace THEN LStrip(Tail(s)) ELSE s

RECURSIVE RStrip(_)
RStrip(s) ==
    IF s # <<>> /\ s[Len(s)] \in Whitespace
    THEN RStrip(SubSeq(s, 1, Len(s) - 1)) ELSE s

\* s.strip()
Strip(s) == RStrip(LStrip(s))

LowerChar(c) ==
    CASE c = "T" -> "t" [] c = "R" -> "r" [] c = "U" -> "u" [] c = "E" -> "e"
      [] c = "Y" -> "y" [] c = "S" -> "s" [] c = "F" -> "f" [] c = "A" -> "a"
      [] c = "L" -> "l" [] c = "N" -> "n" [] c = "O" -> "o"
      [] OTHER -> c

\* s.lower()
Lower(s) == [i \in 1..Len(s) |-> LowerChar(s[i])]

Digits == {"0", "1", "2", "3", "4", "5", "6", "7", "8", "9"}

DigitVal(c) ==
    CASE c = "0" -> 0 [] c = "1" -> 1 [] c = "2" -> 2 [] c = "3" -> 3
      [] c = "4" -> 4 [] c = "5" -> 5 [] c = "6" -> 6 [] c = "7" -> 7
      [] c = "8" -> 8 [] c = "9" -> 9

RECURSIVE DecVal(_)
DecVal(s) ==
    IF s = <<>> THEN 0
    ELSE 10 * DecVal(SubSeq(s, 1, Len(s) - 1)) + DigitVal(s[Len(s)])

AllDigits(s) == s # <<>> /\ \A i \in 1..Len(s) : s[i] \in Digits

\* int(s) for a str: surrounding whitespace ignored, optional sign, decimal
\* digits; anything else raises ValueError
IntBody(s) ==
    LET t == Strip(s)
    IN  IF t # <<>> /\ Head(t) \in {"+", "-"} THEN Tail(t) ELSE t

IntParses(s) == AllDigits(IntBody(s))

IntValue(s) ==
    LET t == Strip(s)
    IN  IF t # <<>> /\ Head(t) = "-" THEN 0 - DecVal(IntBody(s))
        ELSE DecVal(IntBody(s))

\* ------------------------------------------------------------------------
\* components/_helpers.py
\* ------------------------------------------------------------------------

Dot == <<".">>

ensure_trailing_dot(domain) ==
    IF EndsWith(domain, Dot) THEN domain ELSE domain \o Dot

\* variant: the label is prepended without looking at the domain
fqdn_always_prefix(domain, subdomain) ==
    subdomain \o Dot \o ensure_trailing_dot(domain)

fqdn(domain, subdomain) ==
    LET base == ensure_trailing_dot(domain)
    IN  IF ~StartsWith(base, subdomain \o Dot)
        THEN subdomain \o Dot \o base
        ELSE base

\* variant: the dot is appended unconditionally
cname_rrdata_always_dot(target) == << target \o Dot >>

cname_rrdata(target) ==
    << IF EndsWith(target, Dot) THEN target ELSE target \o Dot >>

\* variant: no room is reserved for the suffix
sanitize_storage_account_name_no_reserve(prefix, max_len) ==
    LET cleaned == SliceTo(Replace(Replace(prefix, <<"-">>, <<>>),
                                   <<"_">>, <<>>),
                           max_len)
    IN  cleaned \o <<"s", "a">>

sanitize_storage_account_name(prefix, max_len) ==
    LET cleaned == SliceTo(Replace(Replace(prefix, <<"-">>, <<>>),
                                   <<"_">>, <<>>),
                           max_len - 2)
    IN  cleaned \o <<"s", "a">>

\* default of the max_len parameter
DefaultMaxLen == 24

\* ------------------------------------------------------------------------
\* State
\* ------------------------------------------------------------------------

VARIABLES
    pc,            \* position of main() / of the deployment
    cfg,           \* pulumi.Config(): raw string value of every key that is set
    conf,          \* StackConfig built by from_pulumi_config (empty until then)
    err,           \* exception that ended main(), "none" otherwise
    graph,         \* resource options and inputs of every registered resource
    st,            \* per resource: state of its provisioning / teardown call
    out,           \* Output values: resource attributes and apply() results
    dns,           \* names given to the zone and to the record definitions
    exports,       \* names passed to pulumi.export
    destroyCalls,  \* per resource: number of external delete calls issued
    call           \* a helper called on its own: arguments and results

vars ==
    <<pc, cfg, conf, err, graph, st, out, dns, exports, destroyCalls, call>>

\* no helper is being called on its own
NoCall ==
    [fn |-> "none", text |-> <<>>, label |-> <<>>, max_len |-> 0,
     done |-> 0, res |-> <<>>, again |-> <<>>]

\* ------------------------------------------------------------------------
\* config.py
\* ------------------------------------------------------------------------

StrKeys == {"domain_name", "environment", "aws_bucket_name", "project_name"}

BoolKeys == {"enable_azure_backup", "enable_public_access_block"}

IntKeys == {"backup_retention_days", "gcp_primary_ttl", "gcp_backup_ttl"}

\* keys of _CONFIG_SPEC, in the order the dict comprehension visits them
ConfigKeys ==
    << "domain_name", "environment", "aws_bucket_name", "enable_azure_backup",
       "project_name", "enable_public_access_block", "backup_retention_days",
       "gcp_primary_ttl", "gcp_backup_ttl" >>

Keys == {ConfigKeys[i] : i \in 1..Len(ConfigKeys)}

\* the strings `in ("1", "true", "yes")` tests against
TruthyTexts == { <<"1">>, <<"t", "r", "u", "e">>, <<"y", "e", "s">> }

\* pulumi.Config.require: the raw string, or ConfigMissingError
RequireOk(c, key) == key \in DOMAIN c

\* _require_bool: config.require returns a str, so the isinstance(raw, bool)
\* branch is not taken and the value is the membership test
_require_bool(c, key) ==
    IF ~RequireOk(c, key) THEN [ok |-> FALSE, err |-> "ConfigMissingError"]
    ELSE [ok |-> TRUE, err |-> "none",
          val |-> Lower(Strip(c[key])) \in TruthyTexts]

\* _require_int: int(config.require(key))
_require_int(c, key) ==
    IF ~RequireOk(c, key) THEN [ok |-> FALSE, err |-> "ConfigMissingError"]
    ELSE IF ~IntParses(c[key]) THEN [ok |-> FALSE, err |-> "ValueError"]
    ELSE [ok |-> TRUE, err |-> "none", val |-> IntValue(c[key])]

\* variant: config.get(key) or "", an absent key read as the empty string
_require_str_default(c, key) ==
    IF ~RequireOk(c, key) THEN [ok |-> TRUE, err |-> "none", val |-> <<>>]
    ELSE [ok |-> TRUE, err |-> "none", val |-> c[key]]

\* _require_str: config.require(key)
_require_str(c, key) ==
    IF ~RequireOk(c, key) THEN [ok |-> FALSE, err |-> "ConfigMissingError"]
    ELSE [ok |-> TRUE, err |-> "none", val |-> c[key]]

\* _CONFIG_SPEC: the parser paired with each key
_CONFIG_SPEC(c, key) ==
    IF key \in BoolKeys THEN _require_bool(c, key)
    ELSE IF key \in IntKeys THEN _require_int(c, key)
    ELSE _require_str(c, key)

\* index of the first key whose parser raises, 0 when none does
FirstFailing(c) ==
    LET bad == {i \in 1..Len(ConfigKeys) : ~_CONFIG_SPEC(c, ConfigKeys[i]).ok}
    IN  IF bad = {} THEN 0 ELSE CHOOSE i \in bad : \A j \in bad : i <= j

NoConf == [k \in {} |-> 0]

\* StackConfig.from_pulumi_config, called on the first line of main()
from_pulumi_config ==
    /\ pc = "config"
    /\ LET f == FirstFailing(cfg)
       IN  IF f = 0
           THEN /\ conf' = [k \in Keys |-> _CONFIG_SPEC(cfg, k).val]
                /\ pc' = "aws"
                /\ err' = "none"
           ELSE /\ conf' = NoConf
                /\ pc' = "config_error"
                /\ err' = _CONFIG_SPEC(cfg, ConfigKeys[f]).err
    /\ UNCHANGED <<cfg, graph, st, out, dns, exports, destroyCalls, call>>

\* ------------------------------------------------------------------------
\* Resource graph: what the component constructors register
\* ------------------------------------------------------------------------

\* pulumi.ComponentResource instances
Components == {"aws", "azure", "gcp"}

\* provider resources, named after the suffix of their resource_name
AwsResources == {"bucket", "block_public", "oac", "cdn"}

AzureResources == {"rg", "sa", "static", "azure_backup"}

GcpResources == {"zone", "gcp_www", "gcp_backup"}

Resources == AwsResources \cup AzureResources \cup GcpResources

Nodes == Components \cup Resources

\* Outputs that are not a whole resource: two resource attributes whose value
\* is used, the lifted component name, and the results of apply()/concat()
Outs == {"cdn.domain_name", "sa.name", "azure_name", "account_name",
         "primary_endpoint", "backup_host", "primary_rrdatas",
         "backup_rrdatas", "cloudfront_url"}

NoOpts ==
    [declared |-> FALSE, parent |-> "none", depends_on |-> {},
     retain_on_delete |-> FALSE, inputs |-> {}]

NoOut == [state |-> "unregistered", val |-> <<>>]

\* pulumi.ResourceOptions(parent=self)
aws_child_opts == [parent |-> "aws", depends_on |-> {}, retain_on_delete |-> FALSE]

\* variant: retain_on_delete left at its default
pac_opts_not_retained ==
    [parent |-> "aws", depends_on |-> {}, retain_on_delete |-> FALSE]

\* pulumi.ResourceOptions(parent=self, retain_on_delete=True)
pac_opts == [parent |-> "aws", depends_on |-> {}, retain_on_delete |-> TRUE]

\* pulumi.ResourceOptions(parent=self, depends_on=[oac])
distribution_opts ==
    [parent |-> "aws", depends_on |-> {"oac"}, retain_on_delete |-> FALSE]

azure_child_opts ==
    [parent |-> "azure", depends_on |-> {}, retain_on_delete |-> FALSE]

gcp_child_opts ==
    [parent |-> "gcp", depends_on |-> {}, retain_on_delete |-> FALSE]

\* ComponentResource.__init__(ID, name): no parent, no options
component_opts ==
    [parent |-> "none", depends_on |-> {}, retain_on_delete |-> FALSE]

\* a resource constructor: registers node n with its options and the
\* Outputs (resources or apply results) its arguments are built from
Register(g, n, opts, inputs) ==
    [g EXCEPT ![n] = [declared |-> TRUE, parent |-> opts.parent,
                      depends_on |-> opts.depends_on,
                      retain_on_delete |-> opts.retain_on_delete,
                      inputs |-> inputs]]

\* an Output created by apply()/concat(), waiting for its source
Pending(o, name) == [o EXCEPT ![name] = [state |-> "pending", val |-> <<>>]]

\* Output.from_input(value) of a plain value: resolved at once
Known(o, name, value) ==
    [o EXCEPT ![name] = [state |-> "resolved", val |-> value]]

\* _component_name(project_name, environment, prefix)
_component_name(project_name, environment, prefix) ==
    prefix \o <<"-">> \o project_name \o <<"-">> \o environment

\* name(prefix) inside main()
name(prefix) ==
    _component_name(conf["project_name"], conf["environment"], prefix)

\* Python's binding of keyword arguments to a signature
Accepts(params, required, kwargs) ==
    kwargs \subseteq params /\ required \subseteq kwargs

\* ---- components/aws.py --------------------------------------------------

AwsInfraParams == {"name", "enable_public_access_block"}

AwsInfraRequired == {"name"}

\* bucket argument of the public access block: self.bucket.id
block_public_inputs == {"bucket"}

\* variant: the origin's domain_name is not taken from the bucket
distribution_inputs_no_bucket == {"oac"}

\* origins of the distribution: bucket_regional_domain_name and oac.id
distribution_inputs == {"bucket", "oac"}

\* body of AwsInfra.__init__
AwsInfraBody(g, enable_public_access_block) ==
    LET g1 == Register(g, "aws", component_opts, {})
        g2 == Register(g1, "bucket", aws_child_opts, {})
        g3 == IF enable_public_access_block
              THEN Register(g2, "block_public", aws_child_opts,
                            block_public_inputs)
              ELSE g2
        g4 == Register(g3, "oac", pac_opts, {})
    IN  Register(g4, "cdn", distribution_opts, distribution_inputs)

\* AwsInfra(**kwargs): TypeError when a keyword is not a parameter
AwsInfraCall(kwargs) ==
    /\ pc = "aws"
    /\ IF Accepts(AwsInfraParams, AwsInfraRequired, kwargs)
       THEN /\ graph' = AwsInfraBody(graph, conf["enable_public_access_block"])
            /\ out' = Pending(Pending(out, "cdn.domain_name"), "cloudfront_url")
            /\ pc' = "azure"
            /\ err' = "none"
       ELSE /\ pc' = "type_error"
            /\ err' = "TypeError"
            /\ UNCHANGED <<graph, out>>
    /\ UNCHANGED <<cfg, conf, st, dns, exports, destroyCalls, call>>

\* ---- components/azure.py ------------------------------------------------

AzureInfraParams == {"name", "enable_backup", "backup_retention_days"}

AzureInfraRequired == {"name"}

\* resource_group_name=rg.name, account_name=account_name
storage_account_inputs == {"rg", "account_name"}

\* account_name=self.storage_account.name, resource_group_name=rg.name
static_website_inputs == {"sa", "rg"}

blob_service_inputs == {"rg", "sa"}

\* body of AzureInfra.__init__
AzureInfraBody(g, enable_backup) ==
    LET g1 == Register(g, "azure", component_opts, {})
        g2 == Register(g1, "rg", azure_child_opts, {})
        g3 == Register(g2, "sa", azure_child_opts, storage_account_inputs)
        g4 == Register(g3, "static", azure_child_opts, static_website_inputs)
    IN  IF enable_backup
        THEN Register(g4, "azure_backup", azure_child_opts, blob_service_inputs)
        ELSE g4

AzureInfraCall(kwargs) ==
    /\ pc = "azure"
    /\ IF Accepts(AzureInfraParams, AzureInfraRequired, kwargs)
       THEN /\ graph' = AzureInfraBody(graph, conf["enable_azure_backup"])
            /\ out' = Pending(Pending(Pending(
                          Known(out, "azure_name", name(<<"a", "z", "u", "r", "e">>)),
                          "account_name"), "sa.name"), "primary_endpoint")
            /\ pc' = "host"
            /\ err' = "none"
       ELSE /\ pc' = "type_error"
            /\ err' = "TypeError"
            /\ UNCHANGED <<graph, out>>
    /\ UNCHANGED <<cfg, conf, st, dns, exports, destroyCalls, call>>

\* ---- components/gcp.py --------------------------------------------------

GcpInfraParams == {"name", "domain_name", "primary_target", "backup_target",
                   "primary_ttl", "backup_ttl"}

GcpInfraRequired == {"name", "domain_name", "primary_target"}

Www == <<"w", "w", "w">>

Backup == <<"b", "a", "c", "k", "u", "p">>

\* variant: managed_zone is a literal, not zone.name
backup_record_inputs_no_zone == {"backup_rrdatas"}

\* variant: rrdatas is a literal, not the chained backup target
backup_record_inputs_no_rrdatas == {"zone"}

\* managed_zone=zone.name, rrdatas=rrdatas
backup_record_inputs == {"zone", "backup_rrdatas"}

NoDns ==
    [zone_dns |-> <<>>, primary_name |-> <<>>, backup_name |-> <<>>,
     primary_ttl |-> 0, backup_ttl |-> 0]

\* body of GcpInfra.__init__; self.primary_record is a RecordSetArgs value,
\* the backup record is a RecordSet resource
GcpInfraBody(g, has_backup) ==
    LET g1 == Register(g, "gcp", component_opts, {})
        g2 == Register(g1, "zone", gcp_child_opts, {})
    IN  IF has_backup
        THEN Register(g2, "gcp_backup", gcp_child_opts, backup_record_inputs)
        ELSE g2

\* backup_target is an Output (or None): `if backup_target:` is its truthiness
GcpInfraCall(kwargs, domain_name, backup_target) ==
    /\ pc = "gcp"
    /\ IF Accepts(GcpInfraParams, GcpInfraRequired, kwargs)
       THEN /\ graph' = GcpInfraBody(graph, backup_target # "None")
            /\ out' = IF backup_target # "None"
                      THEN Pending(Pending(out, "primary_rrdatas"),
                                   "backup_rrdatas")
                      ELSE Pending(out, "primary_rrdatas")
            /\ dns' = [zone_dns |-> ensure_trailing_dot(domain_name),
                       primary_name |-> fqdn(domain_name, Www),
                       backup_name |-> IF backup_target # "None"
                                       THEN fqdn(domain_name, Backup)
                                       ELSE <<>>,
                       primary_ttl |-> conf["gcp_primary_ttl"],
                       backup_ttl |-> conf["gcp_backup_ttl"]]
            /\ pc' = "export"
            /\ err' = "none"
       ELSE /\ pc' = "type_error"
            /\ err' = "TypeError"
            /\ UNCHANGED <<graph, out, dns>>
    /\ UNCHANGED <<cfg, conf, st, exports, destroyCalls, call>>

\* ---- __main__.py --------------------------------------------------------

\* keywords main() passes to each constructor
MainAwsKwargs == {"name", "bucket_name", "enable_public_access_block"}

MainAzureKwargs == {"name", "enable_backup", "backup_retention_days"}

MainGcpKwargs == {"name", "domain_name", "primary_target", "backup_target",
                  "primary_ttl", "backup_ttl"}

\* aws = AwsInfra(name=..., bucket_name=..., enable_public_access_block=...)
main_AwsInfra == AwsInfraCall(MainAwsKwargs)

\* the same constructor called with the parameters it declares
AwsInfra_init == AwsInfraCall(AwsInfraParams)

\* azure = AzureInfra(name=..., enable_backup=..., backup_retention_days=...)
main_AzureInfra == AzureInfraCall(MainAzureKwargs)

\* backup_host = azure.primary_endpoint.apply(lambda url: ...)
main_backup_host ==
    /\ pc = "host"
    /\ out' = Pending(out, "backup_host")
    /\ pc' = "gcp"
    /\ UNCHANGED <<cfg, conf, err, graph, st, dns, exports, destroyCalls,
                 call>>

\* gcp = GcpInfra(name=..., domain_name=..., primary_target=..., ...)
main_GcpInfra == GcpInfraCall(MainGcpKwargs, conf["domain_name"], "backup_host")

ExportNames == {"aws_cloudfront_url", "aws_cloudfront_domain",
                "azure_primary_endpoint", "gcp_name_servers"}

\* the pulumi.export loop; main() returns and the engine starts provisioning
main_export ==
    /\ pc = "export"
    /\ exports' = ExportNames
    /\ pc' = "deploy"
    /\ UNCHANGED <<cfg, conf, err, graph, st, out, dns, destroyCalls, call>>

\* ------------------------------------------------------------------------
\* Output chaining: the source of every derived Output
\* ------------------------------------------------------------------------

Https == <<"h", "t", "t", "p", "s", ":", "/", "/">>

Slash == "/"

BlobSuffix ==
    <<".", "b", "l", "o", "b", ".", "c", "o", "r", "e", ".",
      "w", "i", "n", "d", "o", "w", "s", ".", "n", "e", "t">>

\* variant: the path is not cut off
extract_host_no_split(url) == Replace(url, Https, <<>>)

\* lambda url: url.replace("https://", "").split("/")[0]
extract_host(url) == SplitFirst(Replace(url, Https, <<>>), Slash)

\* pulumi.Output.concat("https://", self.storage_account.name,
\*                      ".blob.core.windows.net/")
primary_endpoint_of(account) == Https \o account \o BlobSuffix \o <<Slash>>

\* pulumi.Output.concat("https://", self.distribution.domain_name)
cloudfront_url_of(domain) == Https \o domain

\* the resource or Output each derived Output is computed from
OutSource(o) ==
    CASE o = "cdn.domain_name" -> "cdn"
      [] o = "sa.name" -> "sa"
      [] o = "account_name" -> "azure_name"
      [] o = "primary_endpoint" -> "sa.name"
      [] o = "backup_host" -> "primary_endpoint"
      [] o = "primary_rrdatas" -> "cdn.domain_name"
      [] o = "backup_rrdatas" -> "backup_host"
      [] o = "cloudfront_url" -> "cdn.domain_name"
      [] OTHER -> "none"

RECURSIVE SourceNodes(_)
\* the resources an input depends on, through any chain of apply()
SourceNodes(x) ==
    IF x \in Nodes THEN {x}
    ELSE IF x \in Outs THEN SourceNodes(OutSource(x))
    ELSE {}

\* everything resource n waits for and is deleted before: its parent, its
\* depends_on list and the resources its inputs come from
DepsOf(n) ==
    (IF graph[n].parent = "none" THEN {} ELSE {graph[n].parent})
        \cup graph[n].depends_on
        \cup UNION {SourceNodes(i) : i \in graph[n].inputs}

\* ------------------------------------------------------------------------
\* Provisioning engine
\* ------------------------------------------------------------------------

\* domain names the CDN provider may assign to the distribution
CdnDomains == { <<"d", "1", ".", "n", "e", "t">>,
                <<"d", "1", ".", "n", "e", "t", ".">> }

InputResolved(x) ==
    IF x \in Nodes THEN st[x] = "resolved" ELSE out[x].state = "resolved"

CanIssue(n) ==
    /\ graph[n].declared
    /\ st[n] = "pending"
    /\ \A d \in DepsOf(n) : st[d] = "resolved"
    /\ \A i \in graph[n].inputs : InputResolved(i)

\* the create call of n is sent once everything it depends on has resolved
Issue(n) ==
    /\ pc = "deploy"
    /\ CanIssue(n)
    /\ st' = [st EXCEPT ![n] = "issued"]
    /\ UNCHANGED <<pc, cfg, conf, err, graph, out, dns, exports, destroyCalls,
                 call>>

\* the create call of n returns its outputs
Resolve(n) ==
    /\ pc = "deploy"
    /\ st[n] = "issued"
    /\ st' = [st EXCEPT ![n] = "resolved"]
    /\ IF n = "cdn"
       THEN \E d \in CdnDomains : out' = Known(out, "cdn.domain_name", d)
       ELSE IF n = "sa"
       THEN out' = Known(out, "sa.name", out["account_name"].val)
       ELSE out' = out
    /\ UNCHANGED <<pc, cfg, conf, err, graph, dns, exports, destroyCalls,
                 call>>

\* the create call of a provider resource returns an error
Fail(n) ==
    /\ pc = "deploy"
    /\ n \in Resources
    /\ st[n] = "issued"
    /\ st' = [st EXCEPT ![n] = "failed"]
    /\ UNCHANGED <<pc, cfg, conf, err, graph, out, dns, exports, destroyCalls,
                 call>>

CanApply(o) ==
    /\ out[o].state = "pending"
    /\ OutSource(o) \in Outs
    /\ out[OutSource(o)].state = "resolved"

\* an apply() continuation runs once its source Output has resolved
RunApply(o, value) ==
    /\ pc = "deploy"
    /\ CanApply(o)
    /\ out' = Known(out, o, value)
    /\ UNCHANGED <<pc, cfg, conf, err, graph, st, dns, exports, destroyCalls,
                 call>>

\* pulumi.Output.from_input(name).apply(sanitize_storage_account_name)
account_name_apply ==
    RunApply("account_name",
             sanitize_storage_account_name(out["azure_name"].val, DefaultMaxLen))

primary_endpoint_concat ==
    RunApply("primary_endpoint", primary_endpoint_of(out["sa.name"].val))

backup_host_apply ==
    RunApply("backup_host", extract_host(out["primary_endpoint"].val))

\* pulumi.Output.from_input(primary_target).apply(cname_rrdata)
primary_rrdatas_apply ==
    RunApply("primary_rrdatas", cname_rrdata(out["cdn.domain_name"].val))

\* pulumi.Output.from_input(backup_target).apply(cname_rrdata)
backup_rrdatas_apply ==
    RunApply("backup_rrdatas", cname_rrdata(out["backup_host"].val))

cloudfront_url_concat ==
    RunApply("cloudfront_url", cloudfront_url_of(out["cdn.domain_name"].val))

\* ------------------------------------------------------------------------
\* Teardown
\* ------------------------------------------------------------------------

\* resources recorded in the stack's state
Tracked(n) == st[n] \in {"resolved", "delete_failed"}

\* nothing in flight and nothing left to start
Quiescent ==
    /\ \A n \in Nodes : st[n] # "issued" /\ ~CanIssue(n)
    /\ \A o \in Outs : ~CanApply(o)

StartTeardown ==
    /\ pc = "deploy"
    /\ Quiescent
    /\ pc' = "teardown"
    /\ UNCHANGED <<cfg, conf, err, graph, st, out, dns, exports, destroyCalls,
                 call>>

\* n may leave the state once nothing tracked depends on it, and no delete
\* has failed
CanRemove(n) ==
    /\ pc = "teardown"
    /\ st[n] = "resolved"
    /\ \A m \in Nodes : Tracked(m) => n \notin DepsOf(m)
    /\ \A m \in Nodes : st[m] # "delete_failed"

\* the external delete call of a provider resource is made and succeeds
Destroy(n) ==
    /\ CanRemove(n)
    /\ n \in Resources
    /\ ~graph[n].retain_on_delete
    /\ st' = [st EXCEPT ![n] = "deleted"]
    /\ destroyCalls' = [destroyCalls EXCEPT ![n] = @ + 1]
    /\ UNCHANGED <<pc, cfg, conf, err, graph, out, dns, exports, call>>

\* the external delete call of a provider resource is made and returns an
\* error: the resource stays in the state
DestroyFailed(n) ==
    /\ CanRemove(n)
    /\ n \in Resources
    /\ ~graph[n].retain_on_delete
    /\ st' = [st EXCEPT ![n] = "delete_failed"]
    /\ destroyCalls' = [destroyCalls EXCEPT ![n] = @ + 1]
    /\ UNCHANGED <<pc, cfg, conf, err, graph, out, dns, exports, call>>

\* a component, or a resource with retain_on_delete, is only dropped from
\* the state
Drop(n) ==
    /\ CanRemove(n)
    /\ n \in Components \/ graph[n].retain_on_delete
    /\ st' = [st EXCEPT ![n] = "dropped"]
    /\ UNCHANGED <<pc, cfg, conf, err, graph, out, dns, exports, destroyCalls,
                 call>>

FinishTeardown ==
    /\ pc = "teardown"
    /\ \A n \in Nodes : ~Tracked(n)
    /\ pc' = "torn_down"
    /\ UNCHANGED <<cfg, conf, err, graph, st, out, dns, exports, destroyCalls,
                 call>>

\* ------------------------------------------------------------------------
\* Specifications
\* ------------------------------------------------------------------------

\* values tried for domain_name
Domains == { <<"e", "x", ".", "c", "o">>,
             <<"w", "w", "w", ".", "e", "x", ".", "c", "o", ".">> }

TrueText == <<"t", "r", "u", "e">>

FalseText == <<"f", "a", "l", "s", "e">>

\* raw values tried for the boolean keys
BoolRaws == {TrueText, FalseText, <<" ", "Y", "e", "s">>,
             <<"m", "a", "y", "b", "e">>}

\* raw values tried for the integer keys
IntRaws == { <<"3", "0">>, <<" ", "7">>, <<"a", "b", "c">> }

RawConfig(missing, d, b, i) ==
    [k \in Keys \ missing |->
        IF k = "domain_name" THEN d
        ELSE IF k = "environment" THEN <<"d">>
        ELSE IF k = "project_name" THEN <<"p">>
        ELSE IF k = "aws_bucket_name" THEN <<"b">>
        ELSE IF k \in BoolKeys THEN b[k]
        ELSE i[k]]

EmptyState ==
    /\ graph = [n \in Nodes |-> NoOpts]
    /\ st = [n \in Nodes |-> "pending"]
    /\ out = [o \in Outs |-> NoOut]
    /\ dns = NoDns
    /\ exports = {}
    /\ destroyCalls = [n \in Nodes |-> 0]
    /\ call = NoCall

\* main() as written, from any configuration
Init ==
    /\ pc = "config"
    /\ \E missing \in SUBSET Keys, d \in Domains,
          b \in [BoolKeys -> BoolRaws], i \in [IntKeys -> IntRaws] :
          /\ Cardinality(missing) <= MaxMissing
          /\ cfg = RawConfig(missing, d, b, i)
    /\ conf = NoConf
    /\ err = "none"
    /\ EmptyState

Next == from_pulumi_config \/ main_AwsInfra

Spec == Init /\ [][Next]_vars

\* configurations tried for the stack: <<domain_name,
\* enable_public_access_block, enable_azure_backup>>
StackConfigs ==
    { << <<"e", "x", ".", "c", "o">>, TrueText, TrueText >>,
      << <<"e", "x", ".", "c", "o">>, TrueText, FalseText >>,
      << <<"e", "x", ".", "c", "o">>, FalseText, TrueText >>,
      << <<"w", "w", "w", ".", "e", "x", ".", "c", "o", ".">>,
         FalseText, FalseText >> }

\* the components wired as main() wires them, from a loaded configuration
InitStack ==
    /\ pc = "aws"
    /\ \E c \in StackConfigs :
          cfg = RawConfig({}, c[1],
                          [k \in BoolKeys |->
                              IF k = "enable_public_access_block"
                              THEN c[2] ELSE c[3]],
                          [k \in IntKeys |-> <<"3", "0">>])
    /\ conf = [k \in Keys |-> _CONFIG_SPEC(cfg, k).val]
    /\ err = "none"
    /\ EmptyState

NextStack ==
    \/ AwsInfra_init
    \/ main_AzureInfra
    \/ main_backup_host
    \/ main_GcpInfra
    \/ main_export
    \/ \E n \in Nodes : Issue(n)
    \/ \E n \in Nodes : Resolve(n)
    \/ \E n \in Nodes : Fail(n)
    \/ account_name_apply
    \/ primary_endpoint_concat
    \/ backup_host_apply
    \/ primary_rrdatas_apply
    \/ backup_rrdatas_apply
    \/ cloudfront_url_concat
    \/ StartTeardown
    \/ \E n \in Nodes : Destroy(n)
    \/ \E n \in Nodes : Drop(n)
    \/ \E n \in Nodes : DestroyFailed(n)
    \/ FinishTeardown

SpecStack == InitStack /\ [][NextStack]_vars

\* ---- the host-extraction lambda on its own ------------------------------

RECURSIVE SeqsUpTo(_, _)
\* all sequences over chars of length at most n
SeqsUpTo(chars, n) ==
    IF n = 0 THEN { <<>> }
    ELSE LET shorter == SeqsUpTo(chars, n - 1)
         IN  shorter \cup {Append(t, c) : t \in shorter, c \in chars}

SchemeSep == <<":", "/", "/">>

Schemes == { <<"h", "t", "t", "p", "s">>, <<"h", "t", "t", "p">>,
             <<"f", "t", "p">> }

\* hosts without a '/': short ones, and one that ends in "https:"
Hosts ==
    SeqsUpTo({"a", ".", ":"}, MaxHostLen)
        \cup { <<"h", "t", "t", "p", "s", ":">> }

\* what follows the first '/' after the host
Rests ==
    SeqsUpTo({"b", "/"}, MaxHostLen) \cup { Https \o <<"b">> }

UrlOf(scheme, host, rest) == scheme \o SchemeSep \o host \o <<Slash>> \o rest

\* the lambda of main() about to run on an endpoint URL of any shape
InitHost ==
    /\ pc = "deploy"
    /\ cfg = RawConfig({}, <<"e", "x", ".", "c", "o">>,
                       [k \in BoolKeys |-> TrueText],
                       [k \in IntKeys |-> <<"3", "0">>])
    /\ conf = [k \in Keys |-> _CONFIG_SPEC(cfg, k).val]
    /\ err = "none"
    /\ graph = [n \in Nodes |-> NoOpts]
    /\ st = [n \in Nodes |-> "pending"]
    /\ \E s \in Schemes, h \in Hosts, r \in Rests :
          out = Pending(Known([o \in Outs |-> NoOut], "primary_endpoint",
                              UrlOf(s, h, r)),
                        "backup_host")
    /\ dns = NoDns
    /\ exports = {}
    /\ destroyCalls = [n \in Nodes |-> 0]
    /\ call = NoCall

NextHost == backup_host_apply

SpecHost == InitHost /\ [][NextHost]_vars

\* ---- the storage account name of AzureInfra on its own ------------------

\* project names: any text passes _require_str
ProjectNames == SeqsUpTo({"p", "-", "_", "."}, MaxProjectLen)

\* environments: a short one, and one long enough for the name to be cut
Environments ==
    { <<"d", "e", "v">>,
      <<"s", "t", "a", "g", "i", "n", "g", "-", "e", "n", "v", "i", "r",
        "o", "n", "m", "e", "n", "t", "-", "0", "1">> }

\* AzureInfra constructed by main(): its name is known, the apply() that
\* sanitizes it has not run yet
InitAccount ==
    /\ pc = "deploy"
    /\ \E project \in ProjectNames, environment \in Environments :
          cfg = [RawConfig({}, <<"e", "x", ".", "c", "o">>,
                           [k \in BoolKeys |-> TrueText],
                           [k \in IntKeys |-> <<"3", "0">>])
                   EXCEPT !["project_name"] = project,
                          !["environment"] = environment]
    /\ conf = [k \in Keys |-> _CONFIG_SPEC(cfg, k).val]
    /\ err = "none"
    /\ graph = [n \in Nodes |-> NoOpts]
    /\ st = [n \in Nodes |-> "pending"]
    /\ out = Pending(Known([o \in Outs |-> NoOut], "azure_name",
                           name(<<"a", "z", "u", "r", "e">>)),
                     "account_name")
    /\ dns = NoDns
    /\ exports = {}
    /\ destroyCalls = [n \in Nodes |-> 0]
    /\ call = NoCall

NextAccount == account_name_apply

SpecAccount == InitAccount /\ [][NextAccount]_vars

\* ---- the pure helpers called on their own, as tests/test_helpers.py does --

\* prefixes: letters and the two separators the helper strips
Prefixes == SeqsUpTo({"a", "-", "_"}, MaxPrefixLen)

MaxLens == 0 .. MaxMaxLen

\* domains and labels: letters and dots, so that a domain may already
\* begin with the label and may already end in a dot
HelperDomains == SeqsUpTo({"w", "x", "."}, MaxDomainLen)

Labels == SeqsUpTo({"w", "x"}, MaxLabelLen) \ { <<>> }

\* nothing of the program has run; only `call` is in use
Idle ==
    /\ pc = "helpers"
    /\ cfg = NoConf
    /\ conf = NoConf
    /\ err = "none"
    /\ graph = [n \in Nodes |-> NoOpts]
    /\ st = [n \in Nodes |-> "pending"]
    /\ out = [o \in Outs |-> NoOut]
    /\ dns = NoDns
    /\ exports = {}
    /\ destroyCalls = [n \in Nodes |-> 0]

InitHelpers ==
    /\ Idle
    /\ \/ \E p \in Prefixes, m \in MaxLens :
             call = [NoCall EXCEPT !.fn = "sanitize_storage_account_name",
                                   !.text = p, !.max_len = m]
       \/ \E d \in HelperDomains, l \in Labels :
             call = [NoCall EXCEPT !.fn = "fqdn", !.text = d, !.label = l]

\* result = sanitize_storage_account_name(prefix, max_len)
sanitize_call ==
    /\ pc = "helpers"
    /\ call.fn = "sanitize_storage_account_name"
    /\ call.done = 0
    /\ call' = [call EXCEPT
                  !.res = sanitize_storage_account_name(call.text,
                                                        call.max_len),
                  !.done = 1]
    /\ UNCHANGED <<pc, cfg, conf, err, graph, st, out, dns, exports,
                   destroyCalls>>

\* result = fqdn(domain, label)
fqdn_call ==
    /\ pc = "helpers"
    /\ call.fn = "fqdn"
    /\ call.done = 0
    /\ call' = [call EXCEPT !.res = fqdn(call.text, call.label),
                            !.done = 1]
    /\ UNCHANGED <<pc, cfg, conf, err, graph, st, out, dns, exports,
                   destroyCalls>>

\* fqdn(result, label): the helper applied to its own result
fqdn_again ==
    /\ pc = "helpers"
    /\ call.fn = "fqdn"
    /\ call.done = 1
    /\ call' = [call EXCEPT !.again = fqdn(call.res, call.label),
                            !.done = 2]
    /\ UNCHANGED <<pc, cfg, conf, err, graph, st, out, dns, exports,
                   destroyCalls>>

NextHelpers ==
    \/ sanitize_call
    \/ fqdn_call
    \/ fqdn_again

SpecHelpers == InitHelpers /\ [][NextHelpers]_vars

\* ------------------------------------------------------------------------
\* Properties of the resource graph (SpecStack)
\* ------------------------------------------------------------------------

\* <<a, b>>: b is owned by component a
OwnershipEdges ==
    {<<"aws", n>> : n \in {"bucket", "block_public", "oac", "cdn"}}
        \cup {<<"azure", n>> : n \in {"rg", "sa", "static", "azure_backup"}}
        \cup {<<"gcp", n>> : n \in {"zone", "gcp_backup"}}

\* <<a, b>>: b names a in depends_on
ExplicitEdges == { <<"oac", "cdn">> }

\* <<a, b>>: an argument of b is an output of a
InputEdges ==
    { <<"bucket", "block_public">>, <<"bucket", "cdn">>, <<"oac", "cdn">>,
      <<"rg", "sa">>, <<"rg", "static">>, <<"sa", "static">>,
      <<"rg", "azure_backup">>, <<"sa", "azure_backup">>,
      <<"zone", "gcp_backup">>, <<"sa", "gcp_backup">> }

\* <<a, b>>: b depends on a only through another resource (the backup
\* record through the storage account); every other chain of the edges
\* above is already a direct edge
TransitiveEdges == { <<"rg", "gcp_backup">>, <<"azure", "gcp_backup">> }

\* direct and transitive dependencies
DependencyPairs ==
    OwnershipEdges \cup ExplicitEdges \cup InputEdges \cup TransitiveEdges

\* C1: whenever the provisioning call of B is issued, the provisioning call
\* of every A that B depends on, directly or transitively, has already
\* resolved.
C1_DependencyResolvedBeforeIssue ==
    [][\A e \in DependencyPairs :
          (st[e[2]] = "pending" /\ st'[e[2]] = "issued")
              => st[e[1]] = "resolved"]_vars

\* the distribution and the backup record are in flight together, each
\* after the resources it depends on
C1_Witness ==
    /\ st["cdn"] = "issued"
    /\ st["gcp_backup"] = "issued"
    /\ st["oac"] = "resolved"
    /\ st["sa"] = "resolved"

WasCreated(n) == st[n] \in {"resolved", "deleted", "dropped", "delete_failed"}

\* C3: the OAC is the only resource flagged retain-on-delete; no delete
\* call is ever issued for it, yet once teardown has completed it is out of
\* the state, and every other created provider resource has had exactly one
\* delete call.
C3_RetainedNeverDestroyed ==
    /\ \A n \in Nodes : graph[n].retain_on_delete => n = "oac"
    /\ graph["oac"].declared => graph["oac"].retain_on_delete
    /\ destroyCalls["oac"] = 0
    /\ \A n \in Nodes : destroyCalls[n] <= 1
    /\ pc = "torn_down" =>
          /\ \A n \in Nodes : ~Tracked(n)
          /\ \A n \in Resources \ {"oac"} :
                WasCreated(n) => destroyCalls[n] = 1

\* teardown completed on a stack in which the OAC and the distribution had
\* been created
C3_Witness ==
    /\ pc = "torn_down"
    /\ st["oac"] = "dropped"
    /\ st["cdn"] = "deleted"
    /\ st["gcp_backup"] = "deleted"

\* C4: after a provisioning call has failed, no resource that depends on it
\* is ever issued and no apply() on the path runs (a failed storage account
\* leaves backup_host and the backup rrdatas unresolved and the backup
\* record uncreated); a call already in flight is not cancelled: it can
\* still resolve or fail.
C4_FailureStopsDependents ==
    /\ \A e \in DependencyPairs : st[e[1]] = "failed" => st[e[2]] = "pending"
    /\ st["sa"] = "failed" =>
          /\ out["primary_endpoint"].state # "resolved"
          /\ out["backup_host"].state # "resolved"
          /\ out["backup_rrdatas"].state # "resolved"
          /\ st["gcp_backup"] = "pending"
    /\ st["cdn"] = "failed" => out["primary_rrdatas"].state # "resolved"
    /\ \A n \in Nodes :
          st[n] = "issued" =>
              /\ ENABLED Resolve(n)
              /\ n \in Resources => ENABLED Fail(n)

\* the storage account has failed while the distribution's call, issued
\* independently, is still in flight
C4_Witness ==
    /\ st["sa"] = "failed"
    /\ st["cdn"] = "issued"
    /\ st["zone"] = "resolved"
    /\ st["gcp_backup"] = "pending"

\* ------------------------------------------------------------------------
\* Properties of main() and of the configuration loader (Spec)
\* ------------------------------------------------------------------------

\* texts a person would write for a boolean
BooleanTexts ==
    TruthyTexts \cup { <<"0">>, <<"f", "a", "l", "s", "e">>, <<"n", "o">> }

LooksBoolean(raw) == Lower(Strip(raw)) \in BooleanTexts

\* an optional sign and decimal digits, possibly surrounded by blanks
LooksInteger(raw) ==
    LET t == Strip(raw)
        body == IF t # <<>> /\ Head(t) \in {"+", "-"} THEN Tail(t) ELSE t
    IN  body # <<>> /\ \A j \in 1..Len(body) : body[j] \in Digits

AllKeysPresent == DOMAIN cfg = Keys

AllKeysWellFormed ==
    /\ AllKeysPresent
    /\ \A k \in BoolKeys : LooksBoolean(cfg[k])
    /\ \A k \in IntKeys : LooksInteger(cfg[k])

NothingConstructed ==
    \A n \in Nodes : ~graph[n].declared /\ st[n] = "pending"

\* C5: with all nine keys present and well-formed, no constructor call of
\* main() is rejected and main() does not end in an error.
C5_ConstructorCallsAccepted ==
    AllKeysWellFormed => (err = "none" /\ pc \notin {"type_error", "config_error"})

\* C7: when a required key is absent, main() stops in from_pulumi_config
\* with an error: no StackConfig is built (no default is substituted), no
\* component is constructed and no provisioning call is issued.
C7_MissingKeyIsFatal ==
    ~AllKeysPresent =>
        /\ pc \in {"config", "config_error"}
        /\ DOMAIN conf = {}
        /\ NothingConstructed
        /\ pc = "config_error" => err \in {"ConfigMissingError", "ValueError"}

\* the loader has raised ConfigMissingError for an absent key
C7_Witness ==
    /\ ~AllKeysPresent
    /\ pc = "config_error"
    /\ err = "ConfigMissingError"

\* C8: a value of the wrong shape for a boolean or integer key stops main()
\* in from_pulumi_config; it is never turned into a boolean or an integer.
C8_WrongShapeIsFatal ==
    (\/ \E k \in BoolKeys \cap DOMAIN cfg : ~LooksBoolean(cfg[k])
     \/ \E k \in IntKeys \cap DOMAIN cfg : ~LooksInteger(cfg[k]))
        => (pc \in {"config", "config_error"} /\ DOMAIN conf = {})

\* ------------------------------------------------------------------------
\* Properties of the DNS component and of the host extraction
\* ------------------------------------------------------------------------

Constructed == pc \in {"export", "deploy", "teardown", "torn_down"}

\* C6: once GcpInfra is constructed, both the www record and the backup
\* record are registered resources whose parent is the component.
C6_TwoRecordResources ==
    Constructed =>
        \A n \in {"gcp_www", "gcp_backup"} :
            graph[n].declared /\ graph[n].parent = "gcp"

HostApplied == out["backup_host"].state = "resolved"

\* C9 as stated: for every scheme, the lambda returns the host of
\* scheme://host/rest.
C9_AnySchemeStripped ==
    \A s \in Schemes, h \in Hosts, r \in Rests :
        (HostApplied /\ out["primary_endpoint"].val = UrlOf(s, h, r))
            => out["backup_host"].val = h

HttpsScheme == <<"h", "t", "t", "p", "s">>

\* C9 (amended): for "https://" + host + "/" + rest, with no '/' in host
\* and host not ending in "https:", the lambda returns exactly host.
C9_HttpsSchemeStripped ==
    \A h \in Hosts, r \in Rests :
        (/\ HostApplied
         /\ out["primary_endpoint"].val = UrlOf(HttpsScheme, h, r)
         /\ ~EndsWith(h, <<"h", "t", "t", "p", "s", ":">>))
            => out["backup_host"].val = h

\* the lambda has run on https://a./b/ and returned a.
C9_Witness ==
    /\ HostApplied
    /\ out["primary_endpoint"].val = UrlOf(HttpsScheme, <<"a", ".">>, <<"b", "/">>)
    /\ out["backup_host"].val = <<"a", ".">>

\* s with a trailing dot ensured
WithTrailingDot(s) ==
    IF s # <<>> /\ s[Len(s)] = "." THEN s ELSE Append(s, ".")

\* the record name for a label under domain d
LabelledName(d, label) ==
    LET base == WithTrailingDot(d)
    IN  IF StartsWith(base, Append(label, ".")) THEN base
        ELSE Append(label, ".") \o base

\* the host of an endpoint "https://" + host + "/"
EndpointHost(url) == SubSeq(url, Len(Https) + 1, Len(url) - 1)

Separators == {"-", "_"}

IsLetterOrDigit(c) == c \notin Separators

\* s with every '-' and '_' left out
WithoutSeparators(s) == SelectSeq(s, IsLetterOrDigit)

\* the first n characters of s, all of s when it has fewer
FirstChars(s, n) ==
    IF n <= 0 THEN <<>>
    ELSE IF n >= Len(s) THEN s
    ELSE SubSeq(s, 1, n)

SaSuffix == <<"s", "a">>

Sanitized == call.fn = "sanitize_storage_account_name" /\ call.done = 1

\* what the helper is described to return for its arguments
SanitizedAsDescribed ==
    /\ Len(call.res) <= call.max_len
    /\ Len(call.res) >= 2
    /\ SubSeq(call.res, Len(call.res) - 1, Len(call.res)) = SaSuffix
    /\ call.res = FirstChars(WithoutSeparators(call.text), call.max_len - 2)
                      \o SaSuffix

\* C11 as stated: for every prefix and every max_len the result is at most
\* max_len long, ends in "sa", and is the prefix without '-' and '_',
\* truncated to max_len - 2 characters, followed by "sa".
C11_SanitizedEveryMaxLen == Sanitized => SanitizedAsDescribed

\* C11 amended: the same for every prefix and every max_len of at least 2,
\* the length of the suffix; a cleaned prefix shorter than max_len - 2 is
\* not padded.
C11_SanitizedMaxLenAtLeastTwo ==
    (Sanitized /\ call.max_len >= 2) => SanitizedAsDescribed

\* a call that both strips and truncates: a three-character prefix with one
\* separator is cleaned to "aa" and cut to "a" by max_len = 3
C11_Witness ==
    /\ Sanitized
    /\ call.max_len = 3
    /\ Len(WithoutSeparators(call.text)) = 2
    /\ Len(call.text) = 3
    /\ call.res = <<"a", "s", "a">>

\* ------------------------------------------------------------------------
\* Record names (fqdn)
\* ------------------------------------------------------------------------

\* s begins with p
BeginsWith(s, p) == Len(s) >= Len(p) /\ SubSeq(s, 1, Len(p)) = p

FqdnCalled == call.fn = "fqdn" /\ call.done >= 1

FqdnCalledAgain == call.fn = "fqdn" /\ call.done = 2

\* C12: fqdn(domain, label) is label + "." + ensure_trailing_dot(domain),
\* unless ensure_trailing_dot(domain) already begins with label + ".", and
\* then it is ensure_trailing_dot(domain) unchanged; so the result ends in
\* '.', begins with label + ".", and fqdn with the same label applied to
\* the result returns the result.
C12_FqdnLabelsOnce ==
    LET base == WithTrailingDot(call.text)
        head == Append(call.label, ".")
    IN  /\ FqdnCalled =>
              /\ BeginsWith(base, head) => call.res = base
              /\ ~BeginsWith(base, head) => call.res = head \o base
              /\ call.res[Len(call.res)] = "."
              /\ BeginsWith(call.res, head)
        /\ FqdnCalledAgain => call.again = call.res

\* fqdn has been applied twice to a domain that already carries the label
\* and has no trailing dot: "w.x" with label "w" gives "w.x." both times
C12_Witness ==
    /\ FqdnCalledAgain
    /\ call.text = <<"w", ".", "x">>
    /\ call.label = <<"w">>
    /\ call.res = <<"w", ".", "x", ".">>
    /\ call.again = call.res

\* ------------------------------------------------------------------------
\* Storage account names of AzureInfra
\* ------------------------------------------------------------------------

LowerLetters ==
    {"a", "b", "c", "d", "e", "f", "g", "h", "i", "j", "k", "l", "m",
     "n", "o", "p", "q", "r", "s", "t", "u", "v", "w", "x", "y", "z"}

UpperLetters ==
    {"A", "B", "C", "D", "E", "F", "G", "H", "I", "J", "K", "L", "M",
     "N", "O", "P", "Q", "R", "S", "T", "U", "V", "W", "X", "Y", "Z"}

AlphaNumerics == LowerLetters \cup UpperLetters \cup Digits

\* "3-24 characters"
MinAccountLen == 3
MaxAccountLen == 24

\* Azure's rule for a storage account name, as the component states it
AzureCompliant(account) ==
    /\ \A i \in 1 .. Len(account) : account[i] \in AlphaNumerics
    /\ Len(account) >= MinAccountLen
    /\ Len(account) <= MaxAccountLen

AccountNamed == out["account_name"].state = "resolved"

\* C13: for every component name passed to AzureInfra, the storage account
\* name made from it has alphanumeric characters only and a length between
\* 3 and 24 inclusive.
C13_AccountNameCompliant ==
    AccountNamed => AzureCompliant(out["account_name"].val)

\* ------------------------------------------------------------------------
\* Record names of GcpInfra against its zone
\* ------------------------------------------------------------------------

WwwDot == <<"w", "w", "w", ".">>

BackupDot == <<"b", "a", "c", "k", "u", "p", ".">>

\* C14: for every domain_name given to GcpInfra the zone's dns_name is the
\* domain with a trailing dot ensured, the primary record is named "www."
\* followed by the zone's dns_name and the backup record "backup." followed
\* by it; so no record name equals the zone's own dns_name.
C14_RecordsBelowZoneApex ==
    Constructed =>
        /\ dns.zone_dns = WithTrailingDot(conf["domain_name"])
        /\ dns.primary_name = WwwDot \o dns.zone_dns
        /\ dns.backup_name = BackupDot \o dns.zone_dns
        /\ dns.primary_name # dns.zone_dns
        /\ dns.backup_name # dns.zone_dns

=============================================================================
